---------------------------- MODULE Spec2Model ----------------------------
(***************************************************************************)
(* GridForwardEulerDiffusionSolver3 (jet): the explicit grid diffusion     *)
(* solver, its marker array and its three solve overloads.                 *)
(*                                                                         *)
(* Numbers.  A double is a fixed-point integer with Unit standing for 1.0. *)
(* Source samples are whole numbers (multiples of Unit), grid spacings are *)
(* 1 or 2, diffusionCoefficient and timeIntervalInSeconds are given in     *)
(* tenths, so every division of one solve call is exact: the model is the  *)
(* real-number arithmetic of the code, without floating-point rounding.    *)
(*                                                                         *)
(* A sample value T is a tuple: <<x>> for double, <<x, y, z>> for Vector3D.*)
(* An index is <<i, j, k>>, zero-based as in the code.  A position is      *)
(* given in half cells: the centre of cell (i,j,k) is <<2i+1,2j+1,2k+1>>.  *)
(***************************************************************************)
EXTENDS Integers, Sequences, FiniteSets

VARIABLES
    _markers,              \* the solver's Array3<char> _markers
    source,                \* the caller's source grid
    dest,                  \* the caller's destination grid
    boundarySdf,           \* the boundary signed-distance field of the call
    fluidSdf,              \* the fluid signed-distance field of the call
    diffusionCoefficient,  \* in tenths
    timeIntervalInSeconds, \* in tenths
    pc,                    \* "idle", a running parallel-for, "done", "aborted"
    pending,               \* indices of the running parallel-for not yet run
    written,               \* history: <<view, task index, element>> written
                           \*   to dest by the running parallel-for
    entry,                 \* history: dest and _markers when solve was called
    lastCall               \* history: arguments of the last buildMarkers

vars == <<_markers, source, dest, boundarySdf, fluidSdf, diffusionCoefficient,
          timeIntervalInSeconds, pc, pending, written, entry, lastCall>>

(* ------------------------------ bounds -------------------------------- *)

\* Source samples are 0 .. MaxVal (times Unit).
MaxVal == 1
\* A grid's samples repeat a pattern of PatLen freely chosen values.
PatLen == 3
\* Plane-shaped signed-distance fields cut an axis at 1 .. MaxOff half cells.
MaxOff == 3

(* ---------------------------- constants ------------------------------- *)

kFluid == 0
kAir == 1
kBoundary == 2

\* Denominators of the fixed-point numbers: tenths for the two double
\* arguments, and 2 * 2 for the largest squared grid spacing.
Tenths == 10
Unit == Tenths * Tenths * (2 * 2)

(* ------------------------- Array3 and views --------------------------- *)

Cells(size) == size[1] * size[2] * size[3]

\* forEachIndex(size, ...): every (i, j, k) below size.
Indices(size) ==
    { <<i, j, k>> : i \in 0 .. size[1] - 1, j \in 0 .. size[2] - 1,
                    k \in 0 .. size[3] - 1 }

InRange(size, idx) ==
    /\ idx[1] >= 0 /\ idx[1] < size[1]
    /\ idx[2] >= 0 /\ idx[2] < size[2]
    /\ idx[3] >= 0 /\ idx[3] < size[3]

\* The element (i, j, k) of an array lives at i + size.x * (j + size.y * k).
flat(size, idx) == idx[1] + size[1] * (idx[2] + size[2] * idx[3])

\* Array3(size, initVal)
Array3(size, initVal) ==
    [size |-> size, data |-> [n \in 1 .. Cells(size) |-> initVal]]

\* operator()(i, j, k) with the index in range.
at(arr, idx) == arr.data[flat(arr.size, idx) + 1]

\* The index whose element lives at n.
unflat(size, n) ==
    <<n % size[1], (n \div size[1]) % size[2], n \div (size[1] * size[2])>>

\* Array3::resize(size): the elements of the overlap keep their place, the
\* new ones are value-initialised.
resize(arr, size) ==
    [size |-> size,
     data |-> [n \in 1 .. Cells(size) |->
                 IF InRange(arr.size, unflat(size, n - 1))
                 THEN at(arr, unflat(size, n - 1)) ELSE 0]]

\* A view access in a build without assertions: the element at the flat
\* offset, or whatever lies behind the buffer (g) when the offset is past it.
get(arr, idx, g) ==
    IF flat(arr.size, idx) < Cells(arr.size)
    THEN arr.data[flat(arr.size, idx) + 1] ELSE g

put(arr, idx, v) == [arr EXCEPT !.data[flat(arr.size, idx) + 1] = v]

(* ----------------------- signed-distance fields ----------------------- *)

Clamp(x) == IF x < -1 THEN -1 ELSE IF x > 1 THEN 1 ELSE x

\* ScalarField3::sample: axis 0 is the constant field sgn, axis a > 0 the
\* half space p[a] <= off (sgn 1) or p[a] >= off (sgn -1).
sample(f, p) == IF f.axis = 0 THEN f.sgn ELSE Clamp(f.sgn * (p[f.axis] - f.off))

\* The constant fields and the half spaces across the given axes.
Fields(axes) ==
    { [axis |-> 0, off |-> 0, sgn |-> s] : s \in {-1, 1} } \cup
    { [axis |-> a, off |-> o, sgn |-> 1] : a \in axes, o \in 1 .. MaxOff }

isInsideSdf(phi) == phi <= 0

(* ------------------------- sample positions --------------------------- *)

\* dataPosition(), uPosition(), vPosition(), wPosition() in half cells.
Pos(kind, idx) ==
    CASE kind = "data" -> <<2 * idx[1] + 1, 2 * idx[2] + 1, 2 * idx[3] + 1>>
      [] kind = "u"    -> <<2 * idx[1],     2 * idx[2] + 1, 2 * idx[3] + 1>>
      [] kind = "v"    -> <<2 * idx[1] + 1, 2 * idx[2],     2 * idx[3] + 1>>
      [] kind = "w"    -> <<2 * idx[1] + 1, 2 * idx[2] + 1, 2 * idx[3]>>

(* --------------------------- buildMarkers ----------------------------- *)

markerAt(kind, idx, bSdf, fSdf) ==
    IF isInsideSdf(sample(bSdf, Pos(kind, idx))) THEN kBoundary
    ELSE IF isInsideSdf(sample(fSdf, Pos(kind, idx))) THEN kFluid
    ELSE kAir

\* buildMarkers without the write of its last branch: an index that is
\* neither Boundary nor Fluid keeps what the resized array holds.
buildMarkers_keepsAir(markers, size, kind, bSdf, fSdf) ==
    LET resized == resize(markers, size)
    IN  [resized EXCEPT !.data =
            [n \in 1 .. Cells(resized.size) |->
               IF markerAt(kind, unflat(resized.size, n - 1), bSdf, fSdf) = kAir
               THEN resized.data[n]
               ELSE markerAt(kind, unflat(resized.size, n - 1), bSdf, fSdf)]]

buildMarkers(markers, size, kind, bSdf, fSdf) ==
    LET resized == resize(markers, size)
    IN  [resized EXCEPT !.data =
            [n \in 1 .. Cells(resized.size) |->
               markerAt(kind, unflat(resized.size, n - 1), bSdf, fSdf)]]

(* --------------------------- sample values ---------------------------- *)

AddT(a, b) == [c \in DOMAIN a |-> a[c] + b[c]]
SubT(a, b) == [c \in DOMAIN a |-> a[c] - b[c]]
DivT(a, d) == [c \in DOMAIN a |-> a[c] \div d]
zero(a) == [c \in DOMAIN a |-> 0]
square(x) == x * x

\* diffusionCoefficient * timeIntervalInSeconds * x, both factors in tenths.
Times(coef, dt, x) == [c \in DOMAIN x |-> (coef * dt * x[c]) \div (Tenths * Tenths)]

(* ------------------------------ grids --------------------------------- *)

dataSize(res) == res
uSize(res) == <<res[1] + 1, res[2], res[3]>>
vSize(res) == <<res[1], res[2] + 1, res[3]>>
wSize(res) == <<res[1], res[2], res[3] + 1>>

ViewSize(loop, res) ==
    CASE loop = "data" -> dataSize(res)
      [] loop = "u"    -> uSize(res)
      [] loop = "v"    -> vSize(res)
      [] loop = "w"    -> wSize(res)

NoArray == [size |-> <<0, 0, 0>>, data |-> <<>>]

\* The views a grid of a kind holds.
Views(kind) == IF kind = "face" THEN {"u", "v", "w"} ELSE {"data"}

Grid(kind, res, h, views) ==
    [kind |-> kind, resolution |-> res, gridSpacing |-> h,
     data |-> IF "data" \in Views(kind) THEN views["data"] ELSE NoArray,
     u |-> IF "u" \in Views(kind) THEN views["u"] ELSE NoArray,
     v |-> IF "v" \in Views(kind) THEN views["v"] ELSE NoArray,
     w |-> IF "w" \in Views(kind) THEN views["w"] ELSE NoArray]

(* ----------------------------- laplacian ------------------------------ *)

\* laplacian with the left neighbor's marker not consulted.
laplacian_leftUnmarked(data, marker, gridSpacing, idx) ==
    LET i == idx[1]
        j == idx[2]
        k == idx[3]
        center == at(data, idx)
        ds == data.size
        dleft == IF i > 0
                 THEN SubT(center, at(data, <<i - 1, j, k>>)) ELSE zero(center)
        dright == IF i + 1 < ds[1] /\ at(marker, <<i + 1, j, k>>) = kFluid
                  THEN SubT(at(data, <<i + 1, j, k>>), center) ELSE zero(center)
        ddown == IF j > 0 /\ at(marker, <<i, j - 1, k>>) = kFluid
                 THEN SubT(center, at(data, <<i, j - 1, k>>)) ELSE zero(center)
        dup == IF j + 1 < ds[2] /\ at(marker, <<i, j + 1, k>>) = kFluid
               THEN SubT(at(data, <<i, j + 1, k>>), center) ELSE zero(center)
        dback == IF k > 0 /\ at(marker, <<i, j, k - 1>>) = kFluid
                 THEN SubT(center, at(data, <<i, j, k - 1>>)) ELSE zero(center)
        dfront == IF k + 1 < ds[3] /\ at(marker, <<i, j, k + 1>>) = kFluid
                  THEN SubT(at(data, <<i, j, k + 1>>), center) ELSE zero(center)
    IN  AddT(AddT(DivT(SubT(dright, dleft), square(gridSpacing[1])),
                  DivT(SubT(dup, ddown), square(gridSpacing[2]))),
             DivT(SubT(dfront, dback), square(gridSpacing[3])))

\* laplacian with the z differences divided by the squared y spacing.
laplacian_ySpacingForZ(data, marker, gridSpacing, idx) ==
    LET i == idx[1]
        j == idx[2]
        k == idx[3]
        center == at(data, idx)
        ds == data.size
        dleft == IF i > 0 /\ at(marker, <<i - 1, j, k>>) = kFluid
                 THEN SubT(center, at(data, <<i - 1, j, k>>)) ELSE zero(center)
        dright == IF i + 1 < ds[1] /\ at(marker, <<i + 1, j, k>>) = kFluid
                  THEN SubT(at(data, <<i + 1, j, k>>), center) ELSE zero(center)
        ddown == IF j > 0 /\ at(marker, <<i, j - 1, k>>) = kFluid
                 THEN SubT(center, at(data, <<i, j - 1, k>>)) ELSE zero(center)
        dup == IF j + 1 < ds[2] /\ at(marker, <<i, j + 1, k>>) = kFluid
               THEN SubT(at(data, <<i, j + 1, k>>), center) ELSE zero(center)
        dback == IF k > 0 /\ at(marker, <<i, j, k - 1>>) = kFluid
                 THEN SubT(center, at(data, <<i, j, k - 1>>)) ELSE zero(center)
        dfront == IF k + 1 < ds[3] /\ at(marker, <<i, j, k + 1>>) = kFluid
                  THEN SubT(at(data, <<i, j, k + 1>>), center) ELSE zero(center)
    IN  AddT(AddT(DivT(SubT(dright, dleft), square(gridSpacing[1])),
                  DivT(SubT(dup, ddown), square(gridSpacing[2]))),
             DivT(SubT(dfront, dback), square(gridSpacing[2])))

laplacian(data, marker, gridSpacing, idx) ==
    LET i == idx[1]
        j == idx[2]
        k == idx[3]
        center == at(data, idx)
        ds == data.size
        dleft == IF i > 0 /\ at(marker, <<i - 1, j, k>>) = kFluid
                 THEN SubT(center, at(data, <<i - 1, j, k>>)) ELSE zero(center)
        dright == IF i + 1 < ds[1] /\ at(marker, <<i + 1, j, k>>) = kFluid
                  THEN SubT(at(data, <<i + 1, j, k>>), center) ELSE zero(center)
        ddown == IF j > 0 /\ at(marker, <<i, j - 1, k>>) = kFluid
                 THEN SubT(center, at(data, <<i, j - 1, k>>)) ELSE zero(center)
        dup == IF j + 1 < ds[2] /\ at(marker, <<i, j + 1, k>>) = kFluid
               THEN SubT(at(data, <<i, j + 1, k>>), center) ELSE zero(center)
        dback == IF k > 0 /\ at(marker, <<i, j, k - 1>>) = kFluid
                 THEN SubT(center, at(data, <<i, j, k - 1>>)) ELSE zero(center)
        dfront == IF k + 1 < ds[3] /\ at(marker, <<i, j, k + 1>>) = kFluid
                  THEN SubT(at(data, <<i, j, k + 1>>), center) ELSE zero(center)
    IN  AddT(AddT(DivT(SubT(dright, dleft), square(gridSpacing[1])),
                  DivT(SubT(dup, ddown), square(gridSpacing[2]))),
             DivT(SubT(dfront, dback), square(gridSpacing[3])))

\* fdm_utils' laplacian3(data, gridSpacing, i, j, k): the same differences,
\* with no marker.  g is what a read past the buffer returns.
laplacian3(data, gridSpacing, idx, g) ==
    LET i == idx[1]
        j == idx[2]
        k == idx[3]
        center == get(data, idx, g)
        ds == data.size
        dleft == IF i > 0
                 THEN SubT(center, get(data, <<i - 1, j, k>>, g)) ELSE zero(center)
        dright == IF i + 1 < ds[1]
                  THEN SubT(get(data, <<i + 1, j, k>>, g), center) ELSE zero(center)
        ddown == IF j > 0
                 THEN SubT(center, get(data, <<i, j - 1, k>>, g)) ELSE zero(center)
        dup == IF j + 1 < ds[2]
               THEN SubT(get(data, <<i, j + 1, k>>, g), center) ELSE zero(center)
        dback == IF k > 0
                 THEN SubT(center, get(data, <<i, j, k - 1>>, g)) ELSE zero(center)
        dfront == IF k + 1 < ds[3]
                  THEN SubT(get(data, <<i, j, k + 1>>, g), center) ELSE zero(center)
    IN  AddT(AddT(DivT(SubT(dright, dleft), square(gridSpacing[1])),
                  DivT(SubT(dup, ddown), square(gridSpacing[2]))),
             DivT(SubT(dfront, dback), square(gridSpacing[3])))

(* ------------------------ the per-sample tasks ------------------------ *)

\* The scalar task without its marker test: every sample is diffused.
scalarSample_diffusesAll(src, markers, h, coef, dt, idx) ==
    AddT(at(src, idx), Times(coef, dt, laplacian(src, markers, h, idx)))

\* The scalar task with the Laplacian term subtracted.
scalarSample_minus(src, markers, h, coef, dt, idx) ==
    IF at(markers, idx) = kFluid
    THEN SubT(at(src, idx), Times(coef, dt, laplacian(src, markers, h, idx)))
    ELSE at(src, idx)

\* The body of the scalar overload's parallel-for: the value written to
\* (*dest)(i, j, k).
scalarSample(src, markers, h, coef, dt, idx) ==
    IF at(markers, idx) = kFluid
    THEN AddT(at(src, idx), Times(coef, dt, laplacian(src, markers, h, idx)))
    ELSE at(src, idx)

\* The body of the collocated-vector overload's parallel-for.
collocatedSample(src, markers, h, coef, dt, idx) ==
    IF at(markers, idx) = kFluid
    THEN AddT(at(src, idx), Times(coef, dt, laplacian(src, markers, h, idx)))
    ELSE at(src, idx)

\* The body of a face-centered parallel-for: the dest view after the task.
faceSample(loop, srcView, destView, h, coef, dt, bSdf, idx, g) ==
    IF ~isInsideSdf(sample(bSdf, Pos(loop, idx)))
    THEN put(destView, idx,
             AddT(get(srcView, idx, g),
                  Times(coef, dt, laplacian3(srcView, h, idx, g))))
    ELSE destView

(* ------------------------------ inputs -------------------------------- *)

Patterns == [0 .. PatLen - 1 -> 0 .. MaxVal]

Dim(kind) == IF kind = "collocated" THEN 3 ELSE 1

Shift(loop) == CASE loop = "data" -> 0 [] loop = "u" -> 0
                 [] loop = "v" -> 1 [] loop = "w" -> 2

\* A view whose samples follow the pattern.
PatternArray(size, dim, pat, shift) ==
    [size |-> size,
     data |-> [n \in 1 .. Cells(size) |->
                 [c \in 1 .. dim |-> pat[(n + shift + c - 2) % PatLen] * Unit]]]

SourceGrid(cfg, pat) ==
    Grid(cfg.kind, cfg.resolution, cfg.gridSpacing,
         [loop \in Views(cfg.kind) |->
            PatternArray(ViewSize(loop, cfg.resolution), Dim(cfg.kind), pat,
                         Shift(loop))])

\* The destination before the call: every sample -1.0, a value no source
\* sample has.
DestGrid(cfg) ==
    Grid(cfg.kind, cfg.destResolution, cfg.gridSpacing,
         [loop \in Views(cfg.kind) |->
            Array3(ViewSize(loop, cfg.destResolution),
                   [c \in 1 .. Dim(cfg.kind) |-> -Unit])])

\* What a read past a buffer may return.
Garbage == { <<0>>, <<Unit>> }

\* <<diffusionCoefficient, timeIntervalInSeconds>> in tenths: 0.1 with 4.9
\* (just under the stability bound at spacing 1), a coefficient below zero,
\* a time step of zero.
Params == { <<1, 49>>, <<-1, 10>>, <<1, 0>> }

\* The calls made: the grids' kind, shape and spacing, and the axes the
\* boundary and the fluid half spaces cut.
Config(kind, res, h, destRes, bAxes, fAxes) ==
    [kind |-> kind, resolution |-> res, gridSpacing |-> h,
     destResolution |-> destRes, bAxes |-> bAxes, fAxes |-> fAxes]

Configs ==
    { Config("scalar", <<3, 1, 1>>, h, <<3, 1, 1>>, {1}, {1}) :
        h \in { <<1, 1, 1>>, <<2, 1, 1>> } } \cup
    { Config("scalar", <<1, 2, 1>>, h, <<1, 2, 1>>, {2}, {2}) :
        h \in { <<1, 1, 1>>, <<1, 2, 1>> } } \cup
    { Config("scalar", <<1, 1, 2>>, h, <<1, 1, 2>>, {3}, {3}) :
        h \in { <<1, 1, 1>>, <<1, 1, 2>> } } \cup
    { Config("scalar", <<2, 1, 1>>, <<1, 1, 1>>, d, {1}, {1}) :
        d \in { <<1, 2, 1>>, <<1, 1, 1>> } } \cup
    { Config("collocated", <<2, 1, 1>>, h, <<2, 1, 1>>, {1}, {1}) :
        h \in { <<1, 1, 1>>, <<2, 1, 1>> } } \cup
    { Config("face", r, <<1, 1, 1>>, r, {1, 2}, {}) :
        r \in { <<1, 1, 1>>, <<1, 2, 1>> } }

SameShape == dest.resolution = source.resolution

(* --------------------------- the machine ------------------------------ *)

InitOf(cfgs) ==
    /\ _markers = NoArray
    /\ \E cfg \in cfgs, pat \in Patterns :
          /\ source = SourceGrid(cfg, pat)
          /\ dest = DestGrid(cfg)
          /\ boundarySdf \in Fields(cfg.bAxes)
          /\ fluidSdf \in Fields(cfg.fAxes)
    /\ diffusionCoefficient = 0
    /\ timeIntervalInSeconds = 0
    /\ pc = "idle"
    /\ pending = {}
    /\ written = {}
    /\ entry = [dest |-> dest, markers |-> _markers]
    /\ lastCall = [size |-> <<0, 0, 0>>, kind |-> "data", prevSize |-> <<0, 0, 0>>]

Init == InitOf(Configs)

\* What a call of buildMarkers(size, pos, boundarySdf, fluidSdf) leaves.
CallBuildMarkers(size, kind, bSdf, fSdf) ==
    /\ _markers' = buildMarkers(_markers, size, kind, bSdf, fSdf)
    /\ lastCall' = [size |-> size, kind |-> kind, prevSize |-> _markers.size]

\* solve(const ScalarGrid3&, ...) up to the start of its parallel-for.
SolveScalar(coef, dt) ==
    /\ pc = "idle" /\ source.kind = "scalar"
    /\ diffusionCoefficient' = coef
    /\ timeIntervalInSeconds' = dt
    /\ entry' = [dest |-> dest, markers |-> _markers]
    /\ CallBuildMarkers(source.resolution, "data", boundarySdf, fluidSdf)
    /\ pending' = Indices(dataSize(source.resolution))
    /\ written' = {}
    /\ pc' = "scalar"
    /\ UNCHANGED <<source, dest, boundarySdf, fluidSdf>>

\* One task of the scalar parallel-for.  With a dest of another shape the
\* index may lie outside dest: an assertion build stops, another build
\* writes the element at the flat offset, or writes past the buffer.
ScalarTask(idx) ==
    /\ pc = "scalar" /\ idx \in pending
    /\ LET val == scalarSample(source.data, _markers, source.gridSpacing,
                               diffusionCoefficient, timeIntervalInSeconds, idx)
       IN  \/ /\ InRange(dest.data.size, idx)
              /\ dest' = [dest EXCEPT !.data = put(@, idx, val)]
              /\ written' = written \cup {<<"data", idx, flat(dest.data.size, idx)>>}
              /\ pc' = pc
           \/ /\ ~InRange(dest.data.size, idx)
              /\ flat(dest.data.size, idx) < Cells(dest.data.size)
              /\ dest' = [dest EXCEPT !.data = put(@, idx, val)]
              /\ written' = written \cup {<<"data", idx, flat(dest.data.size, idx)>>}
              /\ pc' = pc
           \/ /\ ~InRange(dest.data.size, idx)
              /\ flat(dest.data.size, idx) >= Cells(dest.data.size)
              /\ pc' = "corrupt"
              /\ UNCHANGED <<dest, written>>
           \/ /\ ~InRange(dest.data.size, idx)
              /\ pc' = "aborted"
              /\ UNCHANGED <<dest, written>>
    /\ pending' = pending \ {idx}
    /\ UNCHANGED <<_markers, source, boundarySdf, fluidSdf, diffusionCoefficient,
                   timeIntervalInSeconds, entry, lastCall>>

\* The scalar parallel-for has run every task: solve returns.
ScalarReturn ==
    /\ pc = "scalar" /\ pending = {}
    /\ pc' = "done"
    /\ UNCHANGED <<_markers, source, dest, boundarySdf, fluidSdf,
                   diffusionCoefficient, timeIntervalInSeconds, pending,
                   written, entry, lastCall>>

\* solve(const CollocatedVectorGrid3&, ...) up to its parallel-for.
SolveCollocated(coef, dt) ==
    /\ pc = "idle" /\ source.kind = "collocated"
    /\ diffusionCoefficient' = coef
    /\ timeIntervalInSeconds' = dt
    /\ entry' = [dest |-> dest, markers |-> _markers]
    /\ CallBuildMarkers(source.resolution, "data", boundarySdf, fluidSdf)
    /\ pending' = Indices(dataSize(source.resolution))
    /\ written' = {}
    /\ pc' = "collocated"
    /\ UNCHANGED <<source, dest, boundarySdf, fluidSdf>>

\* One task of the collocated parallel-for (dest has the source's shape in
\* every collocated call made here).
CollocatedTask(idx) ==
    /\ pc = "collocated" /\ idx \in pending
    /\ InRange(dest.data.size, idx)
    /\ dest' = [dest EXCEPT !.data =
                  put(@, idx, collocatedSample(source.data, _markers,
                                               source.gridSpacing,
                                               diffusionCoefficient,
                                               timeIntervalInSeconds, idx))]
    /\ written' = written \cup {<<"data", idx, flat(dest.data.size, idx)>>}
    /\ pending' = pending \ {idx}
    /\ UNCHANGED <<_markers, source, boundarySdf, fluidSdf, diffusionCoefficient,
                   timeIntervalInSeconds, pc, entry, lastCall>>

CollocatedReturn ==
    /\ pc = "collocated" /\ pending = {}
    /\ pc' = "done"
    /\ UNCHANGED <<_markers, source, dest, boundarySdf, fluidSdf,
                   diffusionCoefficient, timeIntervalInSeconds, pending,
                   written, entry, lastCall>>

\* solve(const FaceCenteredGrid3&, ...) up to its first parallel-for.
SolveFaceCentered(coef, dt) ==
    /\ pc = "idle" /\ source.kind = "face"
    /\ diffusionCoefficient' = coef
    /\ timeIntervalInSeconds' = dt
    /\ entry' = [dest |-> dest, markers |-> _markers]
    /\ CallBuildMarkers(uSize(source.resolution), "u", boundarySdf, fluidSdf)
    /\ pending' = Indices(uSize(source.resolution))
    /\ written' = {}
    /\ pc' = "u"
    /\ UNCHANGED <<source, dest, boundarySdf, fluidSdf>>

\* One task of parallelForEachUIndex over the u samples.
UTask(idx) ==
    /\ pc = "u" /\ idx \in pending
    /\ dest' = [dest EXCEPT !.u =
                  faceSample("u", source.u, @, source.gridSpacing,
                             diffusionCoefficient, timeIntervalInSeconds,
                             boundarySdf, idx, <<0>>)]
    /\ written' = IF isInsideSdf(sample(boundarySdf, Pos("u", idx)))
                  THEN written
                  ELSE written \cup {<<"u", idx, flat(dest.u.size, idx)>>}
    /\ pending' = pending \ {idx}
    /\ UNCHANGED <<_markers, source, boundarySdf, fluidSdf, diffusionCoefficient,
                   timeIntervalInSeconds, pc, entry, lastCall>>

\* The u loop is over: the markers of the v samples, then the v loop.
VStart ==
    /\ pc = "u" /\ pending = {}
    /\ CallBuildMarkers(vSize(source.resolution), "v", boundarySdf, fluidSdf)
    /\ pending' = Indices(vSize(source.resolution))
    /\ written' = {}
    /\ pc' = "v"
    /\ UNCHANGED <<source, dest, boundarySdf, fluidSdf, diffusionCoefficient,
                   timeIntervalInSeconds, entry>>

\* One task of parallelForEachVIndex over the v samples.
VTask(idx) ==
    /\ pc = "v" /\ idx \in pending
    /\ dest' = [dest EXCEPT !.v =
                  faceSample("v", source.v, @, source.gridSpacing,
                             diffusionCoefficient, timeIntervalInSeconds,
                             boundarySdf, idx, <<0>>)]
    /\ written' = IF isInsideSdf(sample(boundarySdf, Pos("v", idx)))
                  THEN written
                  ELSE written \cup {<<"v", idx, flat(dest.v.size, idx)>>}
    /\ pending' = pending \ {idx}
    /\ UNCHANGED <<_markers, source, boundarySdf, fluidSdf, diffusionCoefficient,
                   timeIntervalInSeconds, pc, entry, lastCall>>

\* The v loop is over: the markers of the w samples, then the third loop,
\* which the code runs with parallelForEachUIndex.
WStart ==
    /\ pc = "v" /\ pending = {}
    /\ CallBuildMarkers(wSize(source.resolution), "w", boundarySdf, fluidSdf)
    /\ pending' = Indices(uSize(source.resolution))
    /\ written' = {}
    /\ pc' = "w"
    /\ UNCHANGED <<source, dest, boundarySdf, fluidSdf, diffusionCoefficient,
                   timeIntervalInSeconds, entry>>

\* One task of the third loop.  Its index ranges over the u samples, so it
\* may lie outside the w views: a build with assertions stops, a build
\* without them works on the elements at the flat offsets.
WTask(idx) ==
    /\ pc = "w" /\ idx \in pending
    /\ \/ /\ \E g \in Garbage :
                dest' = [dest EXCEPT !.w =
                           faceSample("w", source.w, @, source.gridSpacing,
                                      diffusionCoefficient,
                                      timeIntervalInSeconds, boundarySdf, idx, g)]
          /\ written' = IF isInsideSdf(sample(boundarySdf, Pos("w", idx)))
                        THEN written
                        ELSE written \cup {<<"w", idx, flat(dest.w.size, idx)>>}
          /\ pc' = pc
       \/ /\ ~InRange(dest.w.size, idx)
          /\ pc' = "aborted"
          /\ UNCHANGED <<dest, written>>
    /\ pending' = pending \ {idx}
    /\ UNCHANGED <<_markers, source, boundarySdf, fluidSdf, diffusionCoefficient,
                   timeIntervalInSeconds, entry, lastCall>>

\* The third loop is over: solve returns.
FaceReturn ==
    /\ pc = "w" /\ pending = {}
    /\ pc' = "done"
    /\ UNCHANGED <<_markers, source, dest, boundarySdf, fluidSdf,
                   diffusionCoefficient, timeIntervalInSeconds, pending,
                   written, entry, lastCall>>

Next ==
    \/ \E p \in Params : SolveScalar(p[1], p[2])
    \/ \E idx \in pending : ScalarTask(idx)
    \/ ScalarReturn
    \/ \E p \in Params : SolveCollocated(p[1], p[2])
    \/ \E idx \in pending : CollocatedTask(idx)
    \/ CollocatedReturn
    \/ \E p \in Params : SolveFaceCentered(p[1], p[2])
    \/ \E idx \in pending : UTask(idx)
    \/ VStart
    \/ \E idx \in pending : VTask(idx)
    \/ WStart
    \/ \E idx \in pending : WTask(idx)
    \/ FaceReturn

Spec == Init /\ [][Next]_vars

(* ---------------- the scalar solve, its tasks in order ---------------- *)

\* <<diffusionCoefficient, timeIntervalInSeconds>> in tenths: rates
\* coefficient * dt / spacing^2 of 0.16, 0.2, 0.49 and 0.51 at spacing 1.
StepParams == { <<1, 16>>, <<2, 10>>, <<1, 49>>, <<1, 51>> }

StepConfigs ==
    { Config("scalar", <<2, 2, 2>>, h, <<2, 2, 2>>, {1}, {2}) :
        h \in { <<1, 1, 1>>, <<1, 2, 1>> } } \cup
    { Config("scalar", <<3, 1, 1>>, <<1, 1, 1>>, <<3, 1, 1>>, {1}, {1}) }

InitStep == InitOf(StepConfigs)

\* The first index of the running loop that has not run.
First(idx) ==
    \A other \in pending :
        flat(source.data.size, idx) <= flat(source.data.size, other)

\* The scalar overload with its parallel-for run as a serial loop.
NextStep ==
    \/ \E p \in StepParams : SolveScalar(p[1], p[2])
    \/ \E idx \in pending : First(idx) /\ ScalarTask(idx)
    \/ ScalarReturn

SpecStep == InitStep /\ [][NextStep]_vars

(* ------------------- buildMarkers, call after call -------------------- *)

MarkerSizes == { <<1, 1, 1>>, <<3, 1, 1>>, <<2, 2, 1>>, <<1, 1, 2>> }

InitMarkers ==
    /\ _markers = NoArray
    /\ source = Grid("scalar", <<0, 0, 0>>, <<1, 1, 1>>, [v \in {"data"} |-> NoArray])
    /\ dest = source
    /\ boundarySdf \in Fields({})
    /\ fluidSdf \in Fields({})
    /\ diffusionCoefficient = 0
    /\ timeIntervalInSeconds = 0
    /\ pc = "idle"
    /\ pending = {}
    /\ written = {}
    /\ entry = [dest |-> dest, markers |-> _markers]
    /\ lastCall = [size |-> <<0, 0, 0>>, kind |-> "data", prevSize |-> <<0, 0, 0>>]

\* A call buildMarkers(size, pos, boundarySdf, fluidSdf) with the sizes,
\* the position function and the fields of a new solve call.
BuildMarkersCall(size, kind, bSdf, fSdf) ==
    /\ CallBuildMarkers(size, kind, bSdf, fSdf)
    /\ boundarySdf' = bSdf
    /\ fluidSdf' = fSdf
    /\ UNCHANGED <<source, dest, diffusionCoefficient, timeIntervalInSeconds,
                   pc, pending, written, entry>>

NextMarkers ==
    \E size \in MarkerSizes, kind \in {"data", "u", "w"},
       bSdf \in Fields({1}), fSdf \in Fields({1}) :
        BuildMarkersCall(size, kind, bSdf, fSdf)

SpecMarkers == InitMarkers /\ [][NextMarkers]_vars

(* ===================================================================== *)
(* The claims.                                                           *)
(* ===================================================================== *)

\* The index one step d along axis a.
StepTo(idx, a, d) == [idx EXCEPT ![a] = @ + d]

\* Component c of source(neighbor) - source(center) for the neighbor one
\* step d along axis a, or 0 when that neighbor is not in the set S.
OneSided(data, idx, a, d, c, S) ==
    IF StepTo(idx, a, d) \in S
    THEN at(data, StepTo(idx, a, d))[c] - at(data, idx)[c]
    ELSE 0

\* Component c of source + diffusionCoefficient * dt * L at idx, L summing
\* the differences to the neighbors in S.
Diffused(data, h, coef, dt, idx, c, S) ==
    at(data, idx)[c] +
    (coef * dt *
       ( (OneSided(data, idx, 1, 1, c, S) + OneSided(data, idx, 1, -1, c, S))
            \div (h[1] * h[1])
       + (OneSided(data, idx, 2, 1, c, S) + OneSided(data, idx, 2, -1, c, S))
            \div (h[2] * h[2])
       + (OneSided(data, idx, 3, 1, c, S) + OneSided(data, idx, 3, -1, c, S))
            \div (h[3] * h[3]) )) \div (Tenths * Tenths)

\* The marker buildMarkers gives the sample idx of a view in this call.
InBoundary(view, idx) == isInsideSdf(sample(boundarySdf, Pos(view, idx)))
InFluid(view, idx) == markerAt(view, idx, boundarySdf, fluidSdf) = kFluid

\* The arguments of the running call meet solve's contract.
ValidArgs == diffusionCoefficient >= 0 /\ timeIntervalInSeconds > 0

DataIndices == Indices(source.data.size)
MarkedFluid(idx) == at(_markers, idx) = kFluid
\* The in-grid samples of the data view whose marker is Fluid.
FluidIndices == { idx \in DataIndices : MarkedFluid(idx) }

\* C1: in the scalar and the collocated-vector overloads, with dest of the
\* source's shape, every sample whose task has run holds
\* source + diffusionCoefficient * dt * L when its marker is Fluid, L summing
\* per axis the one-sided differences to the in-grid Fluid neighbors over the
\* squared spacing, and holds source when its marker is Air or Boundary.
C1_ScalarUpdate ==
    (pc \in {"scalar", "collocated", "done"} /\ source.kind # "face" /\ SameShape) =>
        \A idx \in DataIndices \ pending :
            \A c \in DOMAIN at(source.data, idx) :
                at(dest.data, idx)[c] =
                    IF MarkedFluid(idx)
                    THEN Diffused(source.data, source.gridSpacing,
                                  diffusionCoefficient, timeIntervalInSeconds,
                                  idx, c, FluidIndices)
                    ELSE at(source.data, idx)[c]

\* C1 witness: a finished call in which a Fluid sample has a Fluid neighbor
\* of another value and a non-Fluid in-grid neighbor of another value, and
\* was changed by the step.
C1_Witness ==
    /\ pc = "done" /\ source.kind # "face" /\ SameShape
    /\ diffusionCoefficient * timeIntervalInSeconds > 0
    /\ \E idx \in DataIndices :
          /\ MarkedFluid(idx)
          /\ at(dest.data, idx) # at(source.data, idx)
          /\ \E a \in 1 .. 3, d \in {-1, 1} :
                /\ StepTo(idx, a, d) \in FluidIndices
                /\ at(source.data, StepTo(idx, a, d)) # at(source.data, idx)
          /\ \E a \in 1 .. 3, d \in {-1, 1} :
                /\ InRange(source.data.size, StepTo(idx, a, d))
                /\ ~MarkedFluid(StepTo(idx, a, d))
                /\ at(source.data, StepTo(idx, a, d)) # at(source.data, idx)

FaceViews == {"u", "v", "w"}

\* C4 (as claimed): after the face-centered overload, every sample of every
\* component, over that component's own index range, holds
\* source + diffusionCoefficient * dt * Laplacian of that component when its
\* position is not inside the boundary, and the value dest held before the
\* call when it is.
C4_EveryFaceUpdated ==
    (pc = "done" /\ source.kind = "face" /\ SameShape /\ ValidArgs) =>
        \A view \in FaceViews :
            \A idx \in Indices(ViewSize(view, source.resolution)) :
                at(dest[view], idx)[1] =
                    IF InBoundary(view, idx)
                    THEN at(entry.dest[view], idx)[1]
                    ELSE Diffused(source[view], source.gridSpacing,
                                  diffusionCoefficient, timeIntervalInSeconds,
                                  idx, 1, Indices(source[view].size))

\* C6 (as claimed): a call with a coefficient below zero, a time step that
\* is not positive or a dest of another resolution reports an error before
\* it builds markers or writes a sample.
C6_FailsFast ==
    (/\ pc # "idle"
     /\ \/ diffusionCoefficient < 0
        \/ timeIntervalInSeconds <= 0
        \/ ~SameShape) =>
        /\ pc = "error"
        /\ dest = entry.dest
        /\ _markers = entry.markers

\* C8 (as claimed): in the face-centered overload a u or v sample is
\* diffused only if its own marker is Fluid, and then from its Fluid
\* neighbors alone; a sample that is not Fluid keeps its value.
C8_FaceUsesMarkers ==
    (pc = "done" /\ source.kind = "face" /\ SameShape /\ ValidArgs) =>
        \A view \in {"u", "v"} :
            \A idx \in Indices(ViewSize(view, source.resolution)) :
                LET FluidFaces == { n \in Indices(source[view].size) :
                                      InFluid(view, n) }
                IN  IF InFluid(view, idx)
                    THEN at(dest[view], idx)[1] =
                            Diffused(source[view], source.gridSpacing,
                                     diffusionCoefficient,
                                     timeIntervalInSeconds, idx, 1, FluidFaces)
                    ELSE at(dest[view], idx) \in
                            {at(entry.dest[view], idx), at(source[view], idx)}

\* C9 (as claimed): in every parallel-for, with dest of the source's shape,
\* a task writes only the dest element at its own index.
C9_OwnIndexOnly ==
    (SameShape /\ ValidArgs) =>
        \A w \in written :
            /\ InRange(dest[w[1]].size, w[2])
            /\ w[3] = flat(dest[w[1]].size, w[2])
            /\ \A x \in written : (x[1] = w[1] /\ x[3] = w[3]) => x[2] = w[2]

\* C10 (as claimed): with dest of the source's shape, every index a running
\* parallel-for hands to its tasks lies within the marker array and within
\* the source and dest views the task reads and writes.
C10_IndicesInRange ==
    (SameShape /\ ValidArgs /\ pc \in {"scalar", "collocated", "u", "v", "w"}) =>
        LET view == IF pc \in {"scalar", "collocated"} THEN "data" ELSE pc
        IN  \A idx \in pending :
                /\ InRange(_markers.size, idx)
                /\ InRange(source[view].size, idx)
                /\ InRange(dest[view].size, idx)

\* C3: after any sequence of buildMarkers calls the marker array has the
\* size of the last call and every entry is what that call's fields give at
\* that index's position: Boundary where the boundary field is non-positive,
\* else Fluid where the fluid field is non-positive, else Air.
C3_MarkersFromLastCall ==
    lastCall.size # <<0, 0, 0>> =>
        /\ _markers.size = lastCall.size
        /\ DOMAIN _markers.data = 1 .. Cells(lastCall.size)
        /\ \A idx \in Indices(lastCall.size) :
              at(_markers, idx) =
                 IF sample(boundarySdf, Pos(lastCall.kind, idx)) <= 0
                 THEN kBoundary
                 ELSE IF sample(fluidSdf, Pos(lastCall.kind, idx)) <= 0
                      THEN kFluid
                      ELSE kAir

\* C3 witness: a call that shrank the array along one axis and grew it along
\* another, and left all three labels, one of them a Boundary where the
\* boundary field is exactly zero and the fluid field is negative.
C3_Witness ==
    /\ lastCall.prevSize[1] < lastCall.size[1]
    /\ lastCall.prevSize[2] > lastCall.size[2]
    /\ \E idx \in Indices(_markers.size) :
          /\ at(_markers, idx) = kBoundary
          /\ sample(boundarySdf, Pos(lastCall.kind, idx)) = 0
          /\ sample(fluidSdf, Pos(lastCall.kind, idx)) < 0
    /\ \E idx \in Indices(_markers.size) : at(_markers, idx) = kFluid
    /\ \E idx \in Indices(_markers.size) : at(_markers, idx) = kAir

RECURSIVE SumOver(_, _, _)
\* The sum of the samples of data at the indices S.
SumOver(data, S, c) ==
    IF S = {} THEN 0
    ELSE LET idx == CHOOSE x \in S : TRUE
         IN  at(data, idx)[c] + SumOver(data, S \ {idx}, c)

\* C5: one scalar step leaves the sum over the Fluid samples unchanged,
\* whatever the markers are.
C5_FluidSumKept ==
    (pc = "done" /\ source.kind = "scalar" /\ SameShape) =>
        SumOver(dest.data, FluidIndices, 1) = SumOver(source.data, FluidIndices, 1)

\* C5 witness: a finished step that changed a Fluid sample, with Fluid and
\* non-Fluid samples side by side.
C5_Witness ==
    /\ pc = "done" /\ source.kind = "scalar" /\ SameShape
    /\ \E idx \in FluidIndices : at(dest.data, idx) # at(source.data, idx)
    /\ \E idx \in FluidIndices : \E a \in 1 .. 3, d \in {-1, 1} :
          /\ InRange(source.data.size, StepTo(idx, a, d))
          /\ ~MarkedFluid(StepTo(idx, a, d))
          /\ at(source.data, StepTo(idx, a, d)) # at(source.data, idx)

\* diffusionCoefficient * dt / spacing^2 along axis a, 1.0 being Unit.
Rate(a) ==
    (diffusionCoefficient * timeIntervalInSeconds * Unit)
        \div (Tenths * Tenths * source.gridSpacing[a] * source.gridSpacing[a])

\* The axes along which the grid has more than one sample.
WideAxes == { a \in 1 .. 3 : source.data.size[a] > 1 }

RECURSIVE RateSum(_)
RateSum(A) ==
    IF A = {} THEN 0
    ELSE LET a == CHOOSE x \in A : TRUE IN Rate(a) + RateSum(A \ {a})

\* Every dest sample lies between the least and the greatest source sample.
Bounded ==
    \A idx \in DataIndices :
        /\ \E lo \in DataIndices : at(source.data, lo)[1] <= at(dest.data, idx)[1]
        /\ \E hi \in DataIndices : at(dest.data, idx)[1] <= at(source.data, hi)[1]

\* C7 (as amended): a scalar step with a coefficient that is not negative, a
\* positive dt and the rates coefficient * dt / spacing^2 of the axes with
\* more than one sample adding up to at most 0.5 leaves every dest sample
\* between the least and the greatest source sample.
C7_BoundedWhenSumStable ==
    (/\ pc = "done" /\ source.kind = "scalar" /\ SameShape /\ ValidArgs
     /\ 2 * RateSum(WideAxes) <= Unit) => Bounded

\* C7 witness: such a step on a grid with three wide axes that changed a
\* sample, and such a step at the rate 0.49 of the one-dimensional scenario.
C7_Witness ==
    /\ pc = "done" /\ source.kind = "scalar" /\ SameShape /\ ValidArgs
    /\ 2 * RateSum(WideAxes) <= Unit
    /\ dest.data # source.data
    /\ \/ WideAxes = {1, 2, 3} /\ 100 * RateSum(WideAxes) > 40 * Unit
       \/ WideAxes = {1} /\ 100 * Rate(1) = 49 * Unit

\* C7 (as claimed): a scalar step whose rate is below 0.5 on each axis
\* leaves every dest sample between the least and the greatest source sample.
C7_BoundedWhenEachAxisStable ==
    (/\ pc = "done" /\ source.kind = "scalar" /\ SameShape /\ ValidArgs
     /\ \A a \in 1 .. 3 : 2 * Rate(a) < Unit) => Bounded

=============================================================================
